---- MODULE Spec2Model ----
(***************************************************************************)
(* A model of torch/onnx/_internal/diagnostics/infra/_infra.py: the layer  *)
(* of Rule, Location, Stack, Graph, Diagnostic, RuleCollection and         *)
(* DiagnosticContext on top of the SARIF object model.                     *)
(*                                                                         *)
(* Python values are modelled as follows.                                  *)
(*   str            a sequence of one-character strings ("" is <<>>)       *)
(*   Optional[T]    None is <<>>, a value v is <<v>>                        *)
(*   dict / SARIF   a function from key names to values; a key whose value *)
(*   object         is None is left out (as in the serialised SARIF)       *)
(*   list           a sequence                                             *)
(*   object         an index into a heap (a sequence of records), so that  *)
(*   identity       two references to one instance are one index          *)
(***************************************************************************)
EXTENDS Integers, Sequences, FiniteSets, TLC

VARIABLES
    kwargs,      \* Rule.from_sarif: the reporting descriptor given as keyword arguments
    rule,        \* Rule.from_sarif: Optional, the Rule it returned
    descriptor,  \* Rule.sarif: Optional, the descriptor it returned
    rules,       \* RuleCollection: the list given to custom_collection_from_list
    collection,  \* RuleCollection: Optional, the instance built
    stack,       \* Stack: the instance under test
    calls,       \* Stack: the arguments of the add_frame calls made so far
    heap,        \* the Diagnostic instances alive, by identity
    ctx,         \* the DiagnosticContext instances
    scopes,      \* the `with` blocks entered and not yet left, innermost last
    exc,         \* Optional: the exception unwinding the `with` blocks
    ret          \* what the last call returned or raised

vars == <<kwargs, rule, descriptor, rules, collection, stack, calls,
          heap, ctx, scopes, exc, ret>>

(***************************************************************************)
(* Python values                                                           *)
(***************************************************************************)
None == <<>>

Some(v) == <<v>>

EmptyDict == [k \in {} |-> None]

\* dict.get(key): None when the key is absent
Get(d, k) == IF k \in DOMAIN d THEN Some(d[k]) ELSE None

\* dict.get(key, {}) for a key that holds a dict
GetDict(d, k) == IF k \in DOMAIN d THEN d[k] ELSE EmptyDict

\* A keyword argument of a SARIF object: left out when None
Field(k, opt) == IF opt = None THEN EmptyDict ELSE (k :> opt[1])

\* bool(x) of an Optional[str]: None and "" are falsy
Truthy(opt) == opt # None /\ opt[1] # <<>>

NL == <<"\n">>

NoRet == [op |-> "none"]

\* String literals
S_R1 == <<"R", "1">>
S_R2 == <<"R", "2">>
S_t1 == <<"t", "1">>
S_t2 == <<"t", "2">>
S_m == <<"m">>
S_x == <<"x">>
S_u1 == <<"u", "1">>
S_u2 == <<"u", "2">>
S_demo == <<"d", "e", "m", "o">>
S_v1 == <<"1", ".", "0">>
S_tool == <<"t", "o", "o", "l">>
S_v2 == <<"2", ".", "0">>
S_a_b == <<"a", "-", "b">>
S_a__b == <<"a", "_", "b">>
S_c == <<"c">>

(***************************************************************************)
(* SARIF object model (torch.onnx._internal.diagnostics.infra.sarif)       *)
(***************************************************************************)
MultiformatMessageString(text, markdown) ==
    Field("text", text) @@ Field("markdown", markdown)

ReportingDescriptor(id, name, short_description, full_description, help_uri) ==
    ("id" :> id) @@ ("name" :> name)
    @@ Field("short_description", short_description)
    @@ Field("full_description", full_description)
    @@ Field("help_uri", help_uri)

(***************************************************************************)
(* Rule                                                                    *)
(***************************************************************************)
Rule(id, name, message_default_template, short_description, full_description, full_description_markdown, help_uri) ==
    [id |-> id, name |-> name,
     message_default_template |-> message_default_template,
     short_description |-> short_description,
     full_description |-> full_description,
     full_description_markdown |-> full_description_markdown,
     help_uri |-> help_uri]

Rule_from_sarif(kw) ==
    LET short_description == Get(GetDict(kw, "short_description"), "text")
        full_description == Get(GetDict(kw, "full_description"), "text")
        full_description_markdown == Get(GetDict(kw, "full_description"), "markdown")
        help_uri == Get(kw, "help_uri")
    IN  Rule(kw["id"], kw["name"], kw["message_strings"]["default"]["text"],
             short_description, full_description, full_description_markdown,
             help_uri)

Rule_sarif(self) ==
    LET short_description ==
            IF self.short_description # None
            THEN Some(MultiformatMessageString(self.short_description, None))
            ELSE None
        full_description ==
            IF self.full_description # None
            THEN Some(MultiformatMessageString(self.full_description,
                                               self.full_description_markdown))
            ELSE None
    IN  ReportingDescriptor(self.id, self.name, short_description,
                            full_description, self.help_uri)

\* The descriptors made only of the fields Rule understands
RuleIds == {S_R1, S_R2}

RuleNames == {S_a_b, S_c}

Templates == {S_t1, S_t2}

OptText == {None, Some(S_x)}

Descriptors ==
    { ("id" :> i) @@ ("name" :> n)
      @@ ("message_strings" :> [default |-> [text |-> t]])
      @@ Field("short_description",
               IF sd = None THEN None ELSE Some(Field("text", sd)))
      @@ Field("full_description",
               IF fd = None /\ md = None THEN None
               ELSE Some(Field("text", fd) @@ Field("markdown", md)))
      @@ Field("help_uri", hu) :
      i \in RuleIds, n \in RuleNames, t \in Templates,
      sd \in OptText, fd \in OptText, md \in OptText, hu \in OptText }

RuleIdle == kwargs = EmptyDict /\ rule = None /\ descriptor = None

CollIdle == rules = <<>> /\ collection = None

StackIdle == stack = [frame_locations |-> <<>>] /\ calls = <<>>

CtxIdle == heap = <<>> /\ ctx = <<>> /\ scopes = <<>> /\ exc = None

InitRule ==
    /\ kwargs \in Descriptors
    /\ rule = None /\ descriptor = None
    /\ CollIdle /\ StackIdle /\ CtxIdle
    /\ ret = NoRet

FromSarif ==
    /\ kwargs # EmptyDict /\ rule = None
    /\ rule' = Some(Rule_from_sarif(kwargs))
    /\ ret' = [op |-> "Rule.from_sarif"]
    /\ UNCHANGED <<kwargs, descriptor, rules, collection, stack, calls,
                   heap, ctx, scopes, exc>>

RuleSarif ==
    /\ rule # None /\ descriptor = None
    /\ descriptor' = Some(Rule_sarif(rule[1]))
    /\ ret' = [op |-> "Rule.sarif"]
    /\ UNCHANGED <<kwargs, rule, rules, collection, stack, calls,
                   heap, ctx, scopes, exc>>

NextRule == FromSarif \/ RuleSarif

SpecRule == InitRule /\ [][NextRule]_vars

\* C5: exporting the Rule built from a descriptor d of understood fields
\* gives back a descriptor equal to d, no field lost or added.
C5_RoundTrip == descriptor # None => descriptor[1] = kwargs

(***************************************************************************)
(* RuleCollection                                                          *)
(***************************************************************************)
\* formatter.kebab_case_to_snake_case: every "-" becomes "_"
KebabChar(ch) == IF ch = "-" THEN "_" ELSE ch

kebab_case_to_snake_case(s) == [i \in 1..Len(s) |-> KebabChar(s[i])]

IdentStart == {"a", "b", "c", "_"}

IdentChars == IdentStart \cup {"0", "1", "2"}

\* str.isidentifier(), which dataclasses.make_dataclass asks of a field name
IsIdentifier(s) ==
    /\ Len(s) > 0
    /\ s[1] \in IdentStart
    /\ \A i \in 1..Len(s) : s[i] \in IdentChars

\* The fields custom_collection_from_list hands to make_dataclass
CollectionFields(rs) ==
    [i \in 1..Len(rs) |->
        [name |-> kebab_case_to_snake_case(rs[i].name), default |-> rs[i]]]

\* make_dataclass raises TypeError for a field name that is no identifier
\* or that is given twice
FieldsAccepted(fields) ==
    /\ \A i \in 1..Len(fields) : IsIdentifier(fields[i].name)
    /\ \A i, j \in 1..Len(fields) : fields[i].name = fields[j].name => i = j

\* A faulty __contains__: looks at the id alone
RuleCollection_contains_by_id(self, r) ==
    r.id \in { p[1] : p \in self._rule_id_name_set }

RuleCollection_post_init(fields) ==
    { <<fields[i].default.id, fields[i].default.name>> : i \in 1..Len(fields) }

RuleCollection_contains(self, r) ==
    <<r.id, r.name>> \in self._rule_id_name_set

S_empty == <<>>

CollNames == {S_a_b, S_a__b, S_c, S_empty}

CollRules ==
    { Rule(i, n, t, None, None, None, None) :
      i \in RuleIds, n \in CollNames, t \in Templates }

MaxRules == 2

RuleLists == UNION { [1..n -> CollRules] : n \in 0..MaxRules }

InitColl ==
    /\ rules \in RuleLists
    /\ collection = None
    /\ RuleIdle /\ StackIdle /\ CtxIdle
    /\ ret = NoRet

custom_collection_from_list ==
    /\ collection = None /\ ret.op = "none"
    /\ LET fields == CollectionFields(rules)
       IN  IF FieldsAccepted(fields)
           THEN /\ collection' =
                       Some([fields |-> fields,
                             _rule_id_name_set |-> RuleCollection_post_init(fields)])
                /\ ret' = [op |-> "custom_collection_from_list", raised |-> None]
           ELSE /\ collection' = None
                /\ ret' = [op |-> "custom_collection_from_list",
                           raised |-> Some("TypeError")]
    /\ UNCHANGED <<kwargs, rule, descriptor, rules, stack, calls,
                   heap, ctx, scopes, exc>>

Contains(r) ==
    /\ collection # None
    /\ ret' = [op |-> "__contains__", arg |-> r,
               value |-> RuleCollection_contains(collection[1], r)]
    /\ UNCHANGED <<kwargs, rule, descriptor, rules, collection, stack, calls,
                   heap, ctx, scopes, exc>>

NextColl ==
    \/ custom_collection_from_list
    \/ \E r \in CollRules : Contains(r)

SpecColl == InitColl /\ [][NextColl]_vars

IdNameListed(r) ==
    \E i \in 1..Len(rules) : rules[i].id = r.id /\ rules[i].name = r.name

\* C6: for a collection built from a list of rules, `rule in collection` is
\* true exactly when the (id, name) pair of rule is the pair of a listed
\* rule, whatever the other fields of rule.
C6_Membership ==
    ret.op = "__contains__" => (ret.value <=> IdNameListed(ret.arg))

\* C6 witness: a Rule that is not one of the listed values, with the
\* (id, name) of a listed one, is in the collection; the collection lists
\* two rules.
C6_WeakEqualityReached ==
    /\ ret.op = "__contains__" /\ ret.value
    /\ Len(rules) = 2
    /\ \A i \in 1..Len(rules) : rules[i] # ret.arg

(***************************************************************************)
(* Location and Stack                                                      *)
(***************************************************************************)
Location(uri, message, line, start_column, end_column) ==
    [uri |-> uri, message |-> message, line |-> line,
     start_column |-> start_column, end_column |-> end_column]

Location_sarif(self) ==
    [physical_location |->
        [artifact_location |-> [uri |-> self.uri],
         region |-> Field("start_line", self.line)
                    @@ Field("start_column", self.start_column)
                    @@ Field("end_line", self.line)
                    @@ Field("end_column", self.end_column)],
     message |-> [text |-> self.message]]

StackFrame(loc) == [location |-> Location_sarif(loc)]

Stack_sarif(self) ==
    [frames |-> [i \in 1..Len(self.frame_locations) |->
                    StackFrame(self.frame_locations[i])]]

\* A faulty add_frame: puts the new frame first
Stack_add_frame_first(self, uri, message, line, start_column, end_column) ==
    [self EXCEPT !.frame_locations =
        <<Location(uri, message, line, start_column, end_column)>> \o @]

Stack_add_frame(self, uri, message, line, start_column, end_column) ==
    [self EXCEPT !.frame_locations =
        Append(@, Location(uri, message, line, start_column, end_column))]

Uris == {S_u1, S_u2}

Lines == {None, Some(1)}

StartColumns == {None, Some(2)}

EndColumns == {None, Some(3)}

MaxFrames == 3

InitStack ==
    /\ stack = [frame_locations |-> <<>>]
    /\ calls = <<>>
    /\ RuleIdle /\ CollIdle /\ CtxIdle
    /\ ret = NoRet

AddFrame(uri, message, line, start_column, end_column) ==
    /\ Len(calls) < MaxFrames
    /\ stack' = Stack_add_frame(stack, uri, message, line, start_column, end_column)
    /\ calls' = Append(calls, [uri |-> uri, message |-> message, line |-> line,
                               start_column |-> start_column,
                               end_column |-> end_column])
    /\ ret' = [op |-> "add_frame", value |-> None]
    /\ UNCHANGED <<kwargs, rule, descriptor, rules, collection,
                   heap, ctx, scopes, exc>>

StackSarif ==
    /\ ret' = [op |-> "Stack.sarif", value |-> Stack_sarif(stack)]
    /\ UNCHANGED <<kwargs, rule, descriptor, rules, collection, stack, calls,
                   heap, ctx, scopes, exc>>

NextStack ==
    \/ \E uri \in Uris, line \in Lines, sc \in StartColumns, ec \in EndColumns :
           AddFrame(uri, S_m, line, sc, ec)
    \/ StackSarif

SpecStack == InitStack /\ [][NextStack]_vars

\* The exported frame carries the arguments of the call
FrameOfCall(frame, call) ==
    LET pl == frame.location.physical_location
    IN  /\ pl.artifact_location.uri = call.uri
        /\ frame.location.message.text = call.message
        /\ Get(pl.region, "start_line") = call.line
        /\ Get(pl.region, "end_line") = call.line
        /\ Get(pl.region, "start_column") = call.start_column
        /\ Get(pl.region, "end_column") = call.end_column

\* C9: after N calls of add_frame the stack has N frame locations, the i-th
\* carries the arguments of the i-th call, and Stack.sarif() lists the
\* frames in call order.
C9_FramesInCallOrder ==
    /\ Len(stack.frame_locations) = Len(calls)
    /\ \A i \in 1..Len(calls) :
           /\ stack.frame_locations[i].uri = calls[i].uri
           /\ stack.frame_locations[i].message = calls[i].message
           /\ stack.frame_locations[i].line = calls[i].line
           /\ stack.frame_locations[i].start_column = calls[i].start_column
           /\ stack.frame_locations[i].end_column = calls[i].end_column
    /\ ret.op = "Stack.sarif" =>
           /\ Len(ret.value.frames) = Len(calls)
           /\ \A i \in 1..Len(calls) : FrameOfCall(ret.value.frames[i], calls[i])

\* C9 witness: three calls with different arguments, then an export
C9_ThreeFramesExported ==
    /\ ret.op = "Stack.sarif"
    /\ Len(calls) = 3
    /\ calls[1] # calls[2] /\ calls[2] # calls[3]
(***************************************************************************)
(* Graph and Diagnostic                                                    *)
(***************************************************************************)
Graph(graph_str, name, description) ==
    [graph_str |-> graph_str, name |-> name, description |-> description]

Graph_sarif(self) ==
    [description |-> [text |-> self.graph_str],
     properties |-> ("name" :> self.name) @@ Field("description", self.description)]

\* Level: the enum's members, by value
Levels == {"none", "note", "warning", "error"}

\* The classes of diagnostics: Diagnostic and a subclass of it
Bases == [Diagnostic |-> None, ExportDiagnostic |-> Some("Diagnostic")]

Classes == DOMAIN Bases

\* type(obj) is type: a stricter test than isinstance
IsExactType(cls, type) == cls = type

\* isinstance(obj, type) for an obj of class cls
RECURSIVE IsInstance(_, _)
IsInstance(cls, type) ==
    \/ cls = type
    \/ Bases[cls] # None /\ IsInstance(Bases[cls][1], type)

\* The Location, Stack and Graph instances the callers hold: an instance is
\* its index, so LocationPool[1] and LocationPool[2] are two instances.
LocationPool ==
    <<Location(S_u1, S_m, Some(1), Some(2), None),
      Location(S_u2, S_m, None, None, None)>>

StackPool ==
    <<[frame_locations |-> <<Location(S_u1, S_m, Some(1), None, None)>>]>>

GraphPool == <<Graph(S_x, S_c, None)>>

LocationAt(i) == Location_sarif(LocationPool[i])

StackAt(i) == Stack_sarif(StackPool[i])

GraphAt(i) == Graph_sarif(GraphPool[i])

\* The dataclass constructor of Diagnostic and of its subclasses
Diagnostic(cls, r, level, message, additional_message, tags) ==
    [cls |-> cls, rule |-> r, level |-> level, message |-> message,
     locations |-> <<>>, stacks |-> <<>>, graphs |-> <<>>,
     additional_message |-> additional_message, tags |-> tags]

Diagnostic_sarif(self) ==
    LET primary == IF Truthy(self.message) THEN self.message[1]
                   ELSE self.rule.message_default_template
        message == IF self.additional_message # None
                   THEN primary \o NL \o self.additional_message[1]
                   ELSE primary
    IN  [message |-> [text |-> message],
         level |-> self.level,
         rule_id |-> self.rule.id,
         locations |-> [i \in 1..Len(self.locations) |->
                          LocationAt(self.locations[i])],
         stacks |-> [i \in 1..Len(self.stacks) |-> StackAt(self.stacks[i])],
         graphs |-> [i \in 1..Len(self.graphs) |-> GraphAt(self.graphs[i])],
         properties |-> [tags |-> self.tags]]

\* The builder methods: the heap after the call and the instance returned
Diagnostic_with_location(h, d, location) ==
    [heap |-> [h EXCEPT ![d].locations = Append(@, location)], value |-> d]

Diagnostic_with_stack(h, d, stk) ==
    [heap |-> [h EXCEPT ![d].stacks = Append(@, stk)], value |-> d]

Diagnostic_with_graph(h, d, graph) ==
    [heap |-> [h EXCEPT ![d].graphs = Append(@, graph)], value |-> d]

\* A faulty with_additional_message: forgets the previous value
Diagnostic_with_additional_message_replace(h, d, message) ==
    [heap |-> [h EXCEPT ![d].additional_message = Some(message)], value |-> d]

Diagnostic_with_additional_message(h, d, message) ==
    [heap |-> [h EXCEPT ![d].additional_message =
                   IF @ = None THEN Some(message)
                   ELSE Some(@[1] \o NL \o message)],
     value |-> d]

DiagRules ==
    {Rule(S_R1, S_a_b, S_t1, None, None, None, None),
     Rule(S_R2, S_c, S_t2, Some(S_x), None, None, Some(S_u1))}

Messages == {None, Some(S_empty), Some(S_m)}

AdditionalMessages == {S_empty, S_x}

TagLists == {<<>>, <<S_x>>}

MaxAttach == 2

MaxMsgLen == 3

Attached(h) ==
    LET RECURSIVE Sum(_)
        Sum(i) == IF i = 0 THEN 0
                  ELSE Len(h[i].locations) + Len(h[i].stacks) + Len(h[i].graphs)
                       + Sum(i - 1)
    IN  Sum(Len(h))

\* The characters of all additional messages
MsgLen(h) ==
    LET RECURSIVE Sum(_)
        Sum(i) == IF i = 0 THEN 0
                  ELSE (IF h[i].additional_message = None THEN 0
                        ELSE Len(h[i].additional_message[1]))
                       + Sum(i - 1)
    IN  Sum(Len(h))

WithLocation(d, location) ==
    /\ exc = None /\ d \in DOMAIN heap /\ Attached(heap) < MaxAttach
    /\ LET r == Diagnostic_with_location(heap, d, location)
       IN  /\ heap' = r.heap
           /\ ret' = [op |-> "with_location", self |-> d, arg |-> location,
                      value |-> r.value]
    /\ UNCHANGED <<kwargs, rule, descriptor, rules, collection, stack, calls,
                   ctx, scopes, exc>>

WithStack(d, stk) ==
    /\ exc = None /\ d \in DOMAIN heap /\ Attached(heap) < MaxAttach
    /\ LET r == Diagnostic_with_stack(heap, d, stk)
       IN  /\ heap' = r.heap
           /\ ret' = [op |-> "with_stack", self |-> d, arg |-> stk,
                      value |-> r.value]
    /\ UNCHANGED <<kwargs, rule, descriptor, rules, collection, stack, calls,
                   ctx, scopes, exc>>

WithGraph(d, graph) ==
    /\ exc = None /\ d \in DOMAIN heap /\ Attached(heap) < MaxAttach
    /\ LET r == Diagnostic_with_graph(heap, d, graph)
       IN  /\ heap' = r.heap
           /\ ret' = [op |-> "with_graph", self |-> d, arg |-> graph,
                      value |-> r.value]
    /\ UNCHANGED <<kwargs, rule, descriptor, rules, collection, stack, calls,
                   ctx, scopes, exc>>

WithAdditionalMessage(d, message) ==
    /\ exc = None /\ d \in DOMAIN heap
    /\ MsgLen(heap) + Len(message) < MaxMsgLen
    /\ LET r == Diagnostic_with_additional_message(heap, d, message)
       IN  /\ heap' = r.heap
           /\ ret' = [op |-> "with_additional_message", self |-> d,
                      arg |-> message, value |-> r.value]
    /\ UNCHANGED <<kwargs, rule, descriptor, rules, collection, stack, calls,
                   ctx, scopes, exc>>

DiagSarif(d) ==
    /\ exc = None /\ d \in DOMAIN heap
    /\ ret' = [op |-> "Diagnostic.sarif", self |-> d,
               value |-> Diagnostic_sarif(heap[d])]
    /\ UNCHANGED <<kwargs, rule, descriptor, rules, collection, stack, calls,
                   heap, ctx, scopes, exc>>

\* One Diagnostic, constructed with any rule, level, message, additional
\* message and tags
InitDiag ==
    /\ \E r \in DiagRules, level \in Levels, message \in Messages,
          am \in {None} \cup {Some(a) : a \in AdditionalMessages},
          tags \in TagLists :
           heap = <<Diagnostic("Diagnostic", r, level, message, am, tags)>>
    /\ ctx = <<>> /\ scopes = <<>> /\ exc = None
    /\ RuleIdle /\ CollIdle /\ StackIdle
    /\ ret = NoRet

NextDiag ==
    \/ \E d \in DOMAIN heap, l \in DOMAIN LocationPool : WithLocation(d, l)
    \/ \E d \in DOMAIN heap, s \in DOMAIN StackPool : WithStack(d, s)
    \/ \E d \in DOMAIN heap, g \in DOMAIN GraphPool : WithGraph(d, g)
    \/ \E d \in DOMAIN heap, m \in AdditionalMessages : WithAdditionalMessage(d, m)
    \/ \E d \in DOMAIN heap : DiagSarif(d)

SpecDiag == InitDiag /\ [][NextDiag]_vars

\* C1: the message text of Diagnostic.sarif() is x.message when x.message is
\* set (the empty string included), the rule's default template when it is
\* not set, and that followed by "\n" and additional_message when
\* additional_message is set.
C1_MessageText ==
    ret.op = "Diagnostic.sarif" =>
        LET x == heap[ret.self]
            primary == IF x.message # None THEN x.message[1]
                       ELSE x.rule.message_default_template
        IN  ret.value.message.text =
                IF x.additional_message # None
                THEN primary \o NL \o x.additional_message[1]
                ELSE primary

(***************************************************************************)
(* DiagnosticContext                                                       *)
(***************************************************************************)
DiagnosticContext(name, version, diagnostic_type) ==
    [name |-> name, version |-> version, options |-> None,
     diagnostic_type |-> diagnostic_type, diagnostics |-> <<>>]

DiagnosticContext_enter(c) == c

\* __exit__ returns True: whether the `with` statement swallows the exception
DiagnosticContext_exit(c, e) == TRUE

RECURSIVE Dedup(_)
Dedup(s) ==
    IF s = <<>> THEN <<>>
    ELSE LET front == Dedup(SubSeq(s, 1, Len(s) - 1))
             last == s[Len(s)]
         IN  IF \E i \in 1..Len(front) : front[i] = last THEN front
             ELSE Append(front, last)

\* A faulty sarif: lists each rule descriptor once
DiagnosticContext_sarif_dedup(self, h) ==
    LET RuleOf(d) == Rule_sarif(h[d].rule)
        ResultOf(d) == Diagnostic_sarif(h[d])
    IN  [tool |-> [driver |-> [name |-> self.name, version |-> self.version,
                               rules |-> Dedup([i \in 1..Len(self.diagnostics) |->
                                                   RuleOf(self.diagnostics[i])])]],
         results |-> [i \in 1..Len(self.diagnostics) |->
                        ResultOf(self.diagnostics[i])]]

DiagnosticContext_sarif(self, h) ==
    LET RuleOf(d) == Rule_sarif(h[d].rule)
        ResultOf(d) == Diagnostic_sarif(h[d])
    IN  [tool |-> [driver |-> [name |-> self.name, version |-> self.version,
                               rules |-> [i \in 1..Len(self.diagnostics) |->
                                             RuleOf(self.diagnostics[i])]]],
         results |-> [i \in 1..Len(self.diagnostics) |->
                        ResultOf(self.diagnostics[i])]]

\* A faulty add_diagnostic: puts the diagnostic first
DiagnosticContext_add_diagnostic_first(cx, h, c, d) ==
    IF ~IsInstance(h[d].cls, cx[c].diagnostic_type)
    THEN [ctx |-> cx, raised |-> Some("TypeError")]
    ELSE [ctx |-> [cx EXCEPT ![c].diagnostics = <<d>> \o @], raised |-> None]

\* add_diagnostic: the contexts after the call and the exception raised
DiagnosticContext_add_diagnostic(cx, h, c, d) ==
    IF ~IsInstance(h[d].cls, cx[c].diagnostic_type)
    THEN [ctx |-> cx, raised |-> Some("TypeError")]
    ELSE [ctx |-> [cx EXCEPT ![c].diagnostics = Append(@, d)], raised |-> None]

\* A faulty diagnose: adds the new diagnostic twice
DiagnosticContext_diagnose_twice(cx, h, c, r, level, message) ==
    LET h2 == Append(h, Diagnostic(cx[c].diagnostic_type, r, level, message,
                                   None, <<>>))
        d == Len(h2)
        a == DiagnosticContext_add_diagnostic(cx, h2, c, d)
        b == DiagnosticContext_add_diagnostic(a.ctx, h2, c, d)
    IN  [heap |-> h2, ctx |-> b.ctx, raised |-> b.raised, value |-> d]

\* diagnose: the heap and the contexts after the call, the exception raised
\* and the instance returned
DiagnosticContext_diagnose(cx, h, c, r, level, message) ==
    LET h2 == Append(h, Diagnostic(cx[c].diagnostic_type, r, level, message,
                                   None, <<>>))
        d == Len(h2)
        a == DiagnosticContext_add_diagnostic(cx, h2, c, d)
    IN  [heap |-> h2, ctx |-> a.ctx, raised |-> a.raised, value |-> d]

MaxDiags == 2

MaxEntries == 2

MaxScopes == 1

Entries(cx) ==
    LET RECURSIVE Sum(_)
        Sum(i) == IF i = 0 THEN 0 ELSE Len(cx[i].diagnostics) + Sum(i - 1)
    IN  Sum(Len(cx))

\* An exception raised inside a `with` block unwinds it; outside, the caller
\* has it at once
Unwinding(raised) == IF scopes = <<>> THEN None ELSE raised

InitCtx ==
    /\ heap = <<>>
    /\ ctx = <<DiagnosticContext(S_demo, S_v1, "Diagnostic"),
               DiagnosticContext(S_tool, S_v2, "ExportDiagnostic")>>
    /\ scopes = <<>> /\ exc = None
    /\ RuleIdle /\ CollIdle /\ StackIdle
    /\ ret = NoRet

NewDiagnostic(cls, r, level, message) ==
    /\ exc = None /\ Len(heap) < MaxDiags
    /\ heap' = Append(heap, Diagnostic(cls, r, level, message, None, <<>>))
    /\ ret' = [op |-> "Diagnostic", value |-> Len(heap) + 1]
    /\ UNCHANGED <<kwargs, rule, descriptor, rules, collection, stack, calls,
                   ctx, scopes, exc>>

Diagnose(c, r, level, message) ==
    /\ exc = None /\ Len(heap) < MaxDiags
    /\ LET res == DiagnosticContext_diagnose(ctx, heap, c, r, level, message)
       IN  /\ Entries(res.ctx) <= MaxEntries
           /\ heap' = res.heap
           /\ ctx' = res.ctx
           /\ exc' = Unwinding(res.raised)
           /\ ret' = [op |-> "diagnose", self |-> c, raised |-> res.raised,
                      value |-> res.value]
    /\ UNCHANGED <<kwargs, rule, descriptor, rules, collection, stack, calls,
                   scopes>>

AddDiagnostic(c, d) ==
    /\ exc = None
    /\ LET res == DiagnosticContext_add_diagnostic(ctx, heap, c, d)
       IN  /\ Entries(res.ctx) <= MaxEntries
           /\ ctx' = res.ctx
           /\ exc' = Unwinding(res.raised)
           /\ ret' = [op |-> "add_diagnostic", self |-> c, arg |-> d,
                      raised |-> res.raised]
    /\ UNCHANGED <<kwargs, rule, descriptor, rules, collection, stack, calls,
                   heap, scopes>>

CtxSarif(c) ==
    /\ exc = None
    /\ ret' = [op |-> "DiagnosticContext.sarif", self |-> c,
               value |-> DiagnosticContext_sarif(ctx[c], heap)]
    /\ UNCHANGED <<kwargs, rule, descriptor, rules, collection, stack, calls,
                   heap, ctx, scopes, exc>>

\* `with context as x:` calls __enter__ and binds x to what it returns
Enter(c) ==
    /\ exc = None /\ Len(scopes) < MaxScopes
    /\ scopes' = Append(scopes, c)
    /\ ret' = [op |-> "__enter__", self |-> c,
               value |-> DiagnosticContext_enter(c)]
    /\ UNCHANGED <<kwargs, rule, descriptor, rules, collection, stack, calls,
                   heap, ctx, exc>>

\* Leaving the innermost `with` block, normally or by an exception: the
\* exception goes on to the enclosing block or the caller unless __exit__
\* returns a true value
Exit ==
    /\ scopes # <<>>
    /\ LET c == scopes[Len(scopes)]
           suppress == DiagnosticContext_exit(c, exc)
           raised == IF exc # None /\ ~suppress THEN exc ELSE None
       IN  /\ scopes' = SubSeq(scopes, 1, Len(scopes) - 1)
           /\ exc' = IF Len(scopes) = 1 THEN None ELSE raised
           /\ ret' = [op |-> "__exit__", self |-> c, exc_in |-> exc,
                      value |-> suppress, raised |-> raised]
    /\ UNCHANGED <<kwargs, rule, descriptor, rules, collection, stack, calls,
                   heap, ctx>>

CtxArgs ==
    {[rule |-> Rule(S_R1, S_a_b, S_t1, None, None, None, None),
      level |-> "error", message |-> None],
     [rule |-> Rule(S_R2, S_c, S_t2, Some(S_x), None, None, Some(S_u1)),
      level |-> "warning", message |-> Some(S_m)]}

NextCtx ==
    \/ \E cls \in Classes, a \in CtxArgs :
           NewDiagnostic(cls, a.rule, a.level, a.message)
    \/ \E c \in DOMAIN ctx, a \in CtxArgs :
           Diagnose(c, a.rule, a.level, a.message)
    \/ \E c \in DOMAIN ctx, d \in DOMAIN heap : AddDiagnostic(c, d)
    \/ \E c \in DOMAIN ctx : CtxSarif(c)
    \/ \E c \in DOMAIN ctx : Enter(c)
    \/ Exit

SpecCtx == InitCtx /\ [][NextCtx]_vars

OwnArgs == {a \in CtxArgs : a.level = "error"}

NextOwn ==
    \/ \E c \in DOMAIN ctx, a \in OwnArgs :
           Diagnose(c, a.rule, a.level, a.message)
    \/ \E c \in DOMAIN ctx, d \in DOMAIN heap : AddDiagnostic(c, d)
    \/ \E d \in DOMAIN heap : WithLocation(d, 1)
    \/ \E d \in DOMAIN heap, s \in DOMAIN StackPool : WithStack(d, s)
    \/ \E d \in DOMAIN heap, g \in DOMAIN GraphPool : WithGraph(d, g)
    \/ \E d \in DOMAIN heap : WithAdditionalMessage(d, S_x)

SpecOwn == InitCtx /\ [][NextOwn]_vars

(***************************************************************************)
(* Properties of DiagnosticContext                                         *)
(***************************************************************************)
\* C2: DiagnosticContext.sarif() reports the context's name and version, a
\* results list whose i-th entry is the export of the i-th diagnostic added
\* and a rules list whose i-th entry is the exported descriptor of the i-th
\* diagnostic's rule, one per diagnostic; both are empty with no diagnostic.
C2_RunReport ==
    ret.op = "DiagnosticContext.sarif" =>
        LET self == ctx[ret.self]
            driver == ret.value.tool.driver
            n == Len(self.diagnostics)
        IN  /\ driver.name = self.name
            /\ driver.version = self.version
            /\ Len(ret.value.results) = n
            /\ Len(driver.rules) = n
            /\ \A i \in 1..n :
                   LET x == heap[self.diagnostics[i]]
                   IN  /\ ret.value.results[i] = Diagnostic_sarif(x)
                       /\ ret.value.results[i].rule_id = x.rule.id
                       /\ driver.rules[i] = Rule_sarif(x.rule)
                       /\ driver.rules[i]["id"] = x.rule.id

\* C2 witness: a report of two diagnostics of the same rule
C2_TwoOfOneRuleReported ==
    /\ ret.op = "DiagnosticContext.sarif"
    /\ LET ds == ctx[ret.self].diagnostics
       IN  /\ Len(ds) = 2
           /\ ds[1] # ds[2]
           /\ heap[ds[1]].rule = heap[ds[2]].rule

\* The class cls is type or a direct subclass of it
SameOrSubclass(cls, type) == cls = type \/ Bases[cls] = Some(type)

\* C3 as stated: add_diagnostic(d) raises TypeError whenever the class of d
\* is not exactly the context's diagnostic_type (an instance of a subclass
\* included), and appends d at the end otherwise.
C3_ExactTypeRequired ==
    [][ret'.op = "add_diagnostic" =>
          LET c == ret'.self
              d == ret'.arg
          IN  IF heap[d].cls = ctx[c].diagnostic_type
              THEN /\ ret'.raised = None
                   /\ ctx' = [ctx EXCEPT ![c].diagnostics = Append(@, d)]
              ELSE /\ ret'.raised = Some("TypeError")
                   /\ ctx' = ctx]_vars

\* C3 amended: add_diagnostic(d) raises TypeError exactly when d is not an
\* instance of the context's diagnostic_type, an instance of a subclass
\* being accepted, and appends d at the end otherwise.
C3_InstanceRequired ==
    [][ret'.op = "add_diagnostic" =>
          LET c == ret'.self
              d == ret'.arg
          IN  IF SameOrSubclass(heap[d].cls, ctx[c].diagnostic_type)
              THEN /\ ret'.raised = None
                   /\ ctx' = [ctx EXCEPT ![c].diagnostics = Append(@, d)]
              ELSE /\ ret'.raised = Some("TypeError")
                   /\ ctx' = ctx]_vars

\* C3 witness: an instance of the subclass was added to a context of the
\* base type
C3_SubclassInstanceAdded ==
    /\ ret.op = "add_diagnostic" /\ ret.raised = None
    /\ heap[ret.arg].cls = "ExportDiagnostic"
    /\ ctx[ret.self].diagnostic_type = "Diagnostic"
    /\ ctx[ret.self].diagnostics = <<ret.arg>>

\* C4: entering the scope returns the context itself, and an error raised
\* inside the scope is still raised once the scope is left.
C4_ErrorsNotSuppressed ==
    /\ ret.op = "__enter__" => ret.value = ret.self
    /\ ret.op = "__exit__" => ret.raised = ret.exc_in

IsPrefix(s, t) == Len(s) <= Len(t) /\ SubSeq(t, 1, Len(s)) = s

\* C7: the diagnostics sequence only grows at its end: a successful diagnose
\* or add_diagnostic appends exactly one element (for diagnose the instance
\* it returns); a failed add_diagnostic, sarif, enter and exit change
\* nothing.
C7_AppendOnly ==
    [][/\ \A c \in DOMAIN ctx :
              IsPrefix(ctx[c].diagnostics, ctx'[c].diagnostics)
       /\ ret'.op = "diagnose" =>
              /\ ret'.raised = None
              /\ ret'.value \notin DOMAIN heap
              /\ ctx' = [ctx EXCEPT ![ret'.self].diagnostics =
                                        Append(@, ret'.value)]
       /\ (ret'.op = "add_diagnostic" /\ ret'.raised = None) =>
              ctx' = [ctx EXCEPT ![ret'.self].diagnostics = Append(@, ret'.arg)]
       /\ (ret'.op = "add_diagnostic" /\ ret'.raised # None) => ctx' = ctx
       /\ ret'.op \in {"DiagnosticContext.sarif", "__enter__", "__exit__"} =>
              ctx' = ctx]_vars

\* C7 witness: a context of two diagnostics, and an add_diagnostic that
\* failed on the other context
C7_FailedAddAfterTwo ==
    /\ ret.op = "add_diagnostic" /\ ret.raised # None
    /\ \E c \in DOMAIN ctx : Len(ctx[c].diagnostics) = 2 /\ c # ret.self

(***************************************************************************)
(* Ownership and the builder methods                                       *)
(***************************************************************************)
Range(s) == { s[i] : i \in DOMAIN s }

\* The places of the diagnostics sequences that hold the instance d
Places(cx, d) ==
    UNION { { <<c, i>> : i \in { j \in DOMAIN cx[c].diagnostics :
                                     cx[c].diagnostics[j] = d } } :
            c \in DOMAIN cx }

LocationHolders(h, l) == { d \in DOMAIN h : l \in Range(h[d].locations) }

StackHolders(h, s) == { d \in DOMAIN h : s \in Range(h[d].stacks) }

GraphHolders(h, g) == { d \in DOMAIN h : g \in Range(h[d].graphs) }

Exclusive(cx, h) ==
    /\ \A d \in DOMAIN h : Cardinality(Places(cx, d)) <= 1
    /\ \A l \in DOMAIN LocationPool : Cardinality(LocationHolders(h, l)) <= 1
    /\ \A s \in DOMAIN StackPool : Cardinality(StackHolders(h, s)) <= 1
    /\ \A g \in DOMAIN GraphPool : Cardinality(GraphHolders(h, g)) <= 1

HandsOverHeld ==
    \/ ret'.op = "add_diagnostic" /\ Places(ctx, ret'.arg) # {}
    \/ ret'.op = "with_location" /\ LocationHolders(heap, ret'.arg) \ {ret'.self} # {}
    \/ ret'.op = "with_stack" /\ StackHolders(heap, ret'.arg) \ {ret'.self} # {}
    \/ ret'.op = "with_graph" /\ GraphHolders(heap, ret'.arg) \ {ret'.self} # {}

BuilderOps ==
    {"with_location", "with_stack", "with_graph", "with_additional_message"}

====
